---- MODULE Spec2Model ----
(***************************************************************************)
(* goosebit/updater/manager.py: the device-facing update core.            *)
(*                                                                         *)
(* Shared state is the Device table, the in-process cache (namespace      *)
(* "main"), and the two class-level dictionaries of UpdateManager.        *)
(* Every coroutine is a task; a task takes one step per awaited           *)
(* operation (cache get/set/delete, a database call, a subscriber         *)
(* callback), together with the synchronous code around it.               *)
(***************************************************************************)
EXTENDS Integers, Sequences, FiniteSets, TLC

VARIABLES
    db,                         \* Device table: uuid -> row
    cache,                      \* aiocache memory cache: key -> Device
    device_log_subscriptions,   \* UpdateManager.device_log_subscriptions
    device_poll_time,           \* UpdateManager.device_poll_time
    firmwares,                  \* Firmware table: id -> [version, compatibility]
    rollouts,                   \* Rollout table, in order of created_at
    pc,                         \* task -> label of the await it is suspended at
    stack,                      \* task -> labels to continue at when a callee returns
    call,                       \* task -> the top-level operation it runs
    dev_id,                     \* task -> self.dev_id of its manager
    device,                     \* task -> local `device` of the innermost frame
    gu_device,                  \* task -> local `device` of get_update
    firmware,                   \* task -> local `firmware`
    rollout,                    \* task -> local `rollout` (0: None, else its place in the table)
    handling_type,              \* task -> local `handling_type` of get_update
    update_fields,              \* task -> update_fields of the save_device it is in
    payload,                    \* task -> log_data handed to publish_log
    idx,                        \* task -> position of publish_log's list iterator (-1: no list)
    callback,                   \* task -> the callback of its subscribe_log scope
    outcome,                    \* task -> how its last subscribe_log scope was left
    received,                   \* callback -> payloads it was called with, in order
    ncalls,                     \* state-changing calls issued so far
    nscopes,                    \* subscribe_log scopes opened so far
    at_call                     \* history: the table, the subscriber list and the payloads
                                \* received when the last state-changing call was issued

vars == <<db, cache, device_log_subscriptions, device_poll_time, firmwares,
          rollouts, pc, stack, call, dev_id, device, gu_device, firmware,
          rollout, handling_type, update_fields, payload, idx, callback,
          outcome, received, ncalls, nscopes, at_call>>

(***************************************************************************)
(* Bounds of the model.                                                    *)
(***************************************************************************)
MaxCacheCalls == 2
MaxPolicyCalls == 3
MaxLogCalls == 1
MaxScopes == 2
MaxAppendCalls == 2
MaxSelectorCalls == 3
MaxPollCalls == 1

(***************************************************************************)
(* Values.                                                                 *)
(***************************************************************************)
None == "None"
NoText == <<>>                  \* None where a str is expected
Text(s) == <<s>>                \* a str, as the sequence of its pieces
IsNoText(t) == t = NoText
TextOf(t) == t[1]

\* a value of the progress attribute: None, an int, or the str of digits update_log assigns
PyNone == [py |-> "NoneType", v |-> ""]
PyInt(digits) == [py |-> "int", v |-> digits]
PyStr(digits) == [py |-> "str", v |-> digits]

POLL_TIME == "00:01:00"
POLL_TIME_UPDATING == "00:00:05"

SKIP == "skip"
ATTEMPT == "attempt"
FORCED == "forced"
HandlingType == {SKIP, ATTEMPT, FORCED}

UpdateModeEnum == {"LATEST", "PINNED", "ROLLOUT", "ASSIGNED"}
UpdateStateEnum == {"UNKNOWN", "REGISTERED", "RUNNING", "ERROR"}

Mutator == "m"
Reader == "r"
Subscribers == {"s1", "s2"}
Tasks == {Mutator, Reader} \cup Subscribers

\* dict operations
Put(d, k, v) == [x \in (DOMAIN d) \cup {k} |-> IF x = k THEN v ELSE d[x]]
Del(d, k) == [x \in (DOMAIN d) \ {k} |-> d[x]]
EmptyDict == [x \in {} |-> None]

\* Hardware.get_or_create(model="default", revision="default")
hardware_default == <<"default", "default">>

\* Device.get_or_create(uuid=..., defaults={"hardware": hardware}): the row created
NewDevice(uuid, hardware) ==
    [uuid |-> uuid, name |-> None, hardware |-> hardware, fw_version |-> None,
     last_state |-> "UNKNOWN", update_mode |-> "ROLLOUT", assigned_firmware |-> None,
     force_update |-> FALSE, last_seen |-> 0, last_ip |-> NoText, last_ipv6 |-> NoText,
     progress |-> PyNone, last_log |-> NoText, log_complete |-> FALSE]

\* the value a column stores for an attribute: progress is an integer column,
\* and a str assigned to it is stored as int(value)
ToDb(f, v) == IF f = "progress" /\ v.py = "str" THEN PyInt(v.v) ELSE v

\* the model field an update_fields entry names
FieldOf(f) ==
    CASE f = "assigned_firmware_id" -> "assigned_firmware"
      [] f = "hardware_id" -> "hardware"
      [] OTHER -> f

\* device.save(update_fields=...): UPDATE of the listed columns of the row, if any
SaveRow(table, dev, fields) ==
    IF dev.uuid \in DOMAIN table
    THEN [table EXCEPT ![dev.uuid] =
            [f \in DOMAIN dev |->
                IF \E u \in fields : FieldOf(u) = f THEN ToDb(f, dev[f]) ELSE @[f]]]
    ELSE table

\* an unset local
Unset == NewDevice(None, hardware_default)

DevIds == {"d1", "d2"}

(***************************************************************************)
(* DeviceUpdateManager.update_*: the change each makes to the record it    *)
(* read, and the update_fields it hands to save_device.                    *)
(***************************************************************************)
Changed(dev, fields) == [device |-> dev, update_fields |-> fields, save |-> TRUE]

update_force_update(dev, force_update) ==
    Changed([dev EXCEPT !.force_update = force_update], {"force_update"})

update_fw_version(dev, version) ==
    Changed([dev EXCEPT !.fw_version = version], {"fw_version"})

update_hardware(dev, hardware) ==
    Changed([dev EXCEPT !.hardware = hardware], {"hardware"})

update_device_state(dev, state) ==
    Changed([dev EXCEPT !.last_state = state], {"last_state"})

\* ":" in last_ip
HasColon(s) == \E i \in 1..Len(s) : s[i] = ":"

update_last_connection(dev, last_seen, last_ip) ==
    IF HasColon(last_ip)
    THEN Changed([dev EXCEPT !.last_seen = last_seen, !.last_ipv6 = Text(last_ip)],
                 {"last_seen", "last_ipv6"})
    ELSE Changed([dev EXCEPT !.last_seen = last_seen, !.last_ip = Text(last_ip)],
                 {"last_seen", "last_ip"})

update_update(dev, update_mode, fw) ==
    Changed([dev EXCEPT !.assigned_firmware = fw, !.update_mode = update_mode],
            {"assigned_firmware_id", "update_mode"})

update_name(dev, name) ==
    Changed([dev EXCEPT !.name = name], {"name"})

\* kwargs.get(key) or "default"
KwargOrDefault(kwargs, key) ==
    IF key \in DOMAIN kwargs /\ kwargs[key] # None /\ kwargs[key] # ""
    THEN kwargs[key] ELSE "default"

update_config_data(dev, kwargs) ==
    LET hardware == <<KwargOrDefault(kwargs, "hw_model"), KwargOrDefault(kwargs, "hw_revision")>>
        d1 == IF dev.hardware # hardware THEN [dev EXCEPT !.hardware = hardware] ELSE dev
        d2 == IF d1.last_state = "UNKNOWN" THEN [d1 EXCEPT !.last_state = "REGISTERED"] ELSE d1
        modified == dev.hardware # hardware \/ d1.last_state = "UNKNOWN"
    IN  [device |-> d2, update_fields |-> {"hardware_id", "last_state"}, save |-> modified]

update_log_complete(dev, log_complete) ==
    Changed([dev EXCEPT !.log_complete = log_complete], {"log_complete"})

\* the change of the update_* operation c to the record dev
UpdateOf(c, dev) ==
    CASE c.name = "update_force_update" -> update_force_update(dev, c.arg)
      [] c.name = "update_fw_version" -> update_fw_version(dev, c.arg)
      [] c.name = "update_hardware" -> update_hardware(dev, c.arg)
      [] c.name = "update_device_state" -> update_device_state(dev, c.arg)
      [] c.name = "update_last_connection" -> update_last_connection(dev, c.arg[1], c.arg[2])
      [] c.name = "update_update" -> update_update(dev, c.arg[1], c.arg[2])
      [] c.name = "update_name" -> update_name(dev, c.arg)
      [] c.name = "update_config_data" -> update_config_data(dev, c.arg)
      [] c.name = "update_log_complete" -> update_log_complete(dev, c.arg)

UpdateNames ==
    {"update_force_update", "update_fw_version", "update_hardware", "update_device_state",
     "update_last_connection", "update_update", "update_name", "update_config_data",
     "update_log_complete"}

Call(name, arg) == [name |-> name, arg |-> arg]
NoCall == Call("none", None)

(***************************************************************************)
(* Control: a task suspended at label l runs the step of l; a callee       *)
(* returns to the label on top of the task's stack.                        *)
(***************************************************************************)
Goto(p, l) == pc' = [pc EXCEPT ![p] = l]

CallSub(p, l, cont) ==
    /\ pc' = [pc EXCEPT ![p] = l]
    /\ stack' = [stack EXCEPT ![p] = <<cont>> \o @]

\* the top-level operation returns when nothing is left to continue at
Return(p) ==
    IF stack[p] = <<>>
    THEN /\ pc' = [pc EXCEPT ![p] = "idle"]
         /\ UNCHANGED stack
    ELSE /\ pc' = [pc EXCEPT ![p] = Head(stack[p])]
         /\ stack' = [stack EXCEPT ![p] = Tail(@)]

tables == <<firmwares, rollouts>>
registry == <<device_log_subscriptions, device_poll_time>>
counters == <<ncalls, nscopes, at_call>>
locals == <<gu_device, firmware, rollout, handling_type, payload, idx>>
scopes == <<callback, outcome, received>>

(***************************************************************************)
(* DeviceUpdateManager.get_device under @cached(ttl=600, key=dev_id).      *)
(***************************************************************************)
\* the decorator's read of the cache: a hit returns the entry
get_device_cached(p) ==
    /\ pc[p] = "gd_lookup"
    /\ IF dev_id[p] \in DOMAIN cache
       THEN /\ device' = [device EXCEPT ![p] = cache[dev_id[p]]]
            /\ Return(p)
       ELSE /\ Goto(p, "gd_db")
            /\ UNCHANGED <<device, stack>>
    /\ UNCHANGED <<db, cache, registry, tables, call, dev_id, locals, update_fields, scopes, counters>>

\* the body: Device.get_or_create(uuid=self.dev_id, defaults={"hardware": hardware})
get_device(p) ==
    /\ pc[p] = "gd_db"
    /\ db' = IF dev_id[p] \in DOMAIN db THEN db
             ELSE Put(db, dev_id[p], NewDevice(dev_id[p], hardware_default))
    /\ device' = [device EXCEPT ![p] = db'[dev_id[p]]]
    /\ Goto(p, "gd_fill")
    /\ UNCHANGED <<cache, registry, tables, stack, call, dev_id, locals, update_fields, scopes, counters>>

\* the decorator's write of the result into the cache
get_device_fill(p) ==
    /\ pc[p] = "gd_fill"
    /\ cache' = Put(cache, dev_id[p], device[p])
    /\ Return(p)
    /\ UNCHANGED <<db, registry, tables, call, dev_id, device, locals, update_fields, scopes, counters>>

\* the entry's time-to-live of 600 runs out
Expire(d) ==
    /\ d \in DOMAIN cache
    /\ cache' = Del(cache, d)
    /\ UNCHANGED <<db, registry, tables, pc, stack, call, dev_id, device, locals,
                   update_fields, scopes, counters>>

(***************************************************************************)
(* DeviceUpdateManager.save_device: cache.set, then device.save.           *)
(***************************************************************************)
save_device(c, dev) == Put(c, dev.uuid, dev)

\* an update_* operation after its get_device: the change, then save_device's cache.set
update_apply(p) ==
    /\ pc[p] = "upd"
    /\ LET u == UpdateOf(call[p], device[p]) IN
        /\ device' = [device EXCEPT ![p] = u.device]
        /\ update_fields' = [update_fields EXCEPT ![p] = u.update_fields]
        /\ IF u.save
           THEN /\ cache' = save_device(cache, u.device)
                /\ Goto(p, "sv_db")
                /\ UNCHANGED stack
           ELSE /\ Return(p)
                /\ UNCHANGED cache
    /\ UNCHANGED <<db, registry, tables, call, dev_id, locals, scopes, counters>>

\* save_device's cache.set, for a caller that changed the record before
save_device_cache(p) ==
    /\ pc[p] = "sv_cache"
    /\ cache' = save_device(cache, device[p])
    /\ Goto(p, "sv_db")
    /\ UNCHANGED <<db, registry, tables, stack, call, dev_id, device, locals,
                   update_fields, scopes, counters>>

\* save_device's device.save(update_fields=...)
save_device_db(p) ==
    /\ pc[p] = "sv_db"
    /\ db' = SaveRow(db, device[p], update_fields[p])
    /\ Return(p)
    /\ UNCHANGED <<cache, registry, tables, call, dev_id, device, locals, update_fields,
                   scopes, counters>>

(***************************************************************************)
(* UpdateManager.poll_time: the per-device override of the cadence.        *)
(***************************************************************************)
poll_time(id) ==
    IF id \in DOMAIN device_poll_time THEN device_poll_time[id] ELSE POLL_TIME

\* a setter that never drops the override
poll_time_set_keeps(id, value) ==
    IF value # POLL_TIME
    THEN Put(device_poll_time, id, value)
    ELSE device_poll_time

poll_time_set(id, value) ==
    IF value # POLL_TIME
    THEN Put(device_poll_time, id, value)
    ELSE Del(device_poll_time, id)

(***************************************************************************)
(* Firmware selection.                                                     *)
(***************************************************************************)
\* the order of versions
VersionKey(v) == CASE v = "1.0" -> 1 [] v = "2.0" -> 2 [] v = "3.0" -> 3 [] OTHER -> 0

\* Firmware.latest(device): the highest-ordered firmware compatible with its hardware
FirmwareLatest(dev) ==
    LET compatible == {f \in DOMAIN firmwares : dev.hardware \in firmwares[f].compatibility}
    IN  IF compatible = {} THEN None
        ELSE CHOOSE f \in compatible :
                \A g \in compatible : VersionKey(firmwares[g].version) <= VersionKey(firmwares[f].version)

\* a query that leaves paused rollouts out before taking the most recent
RolloutFirstRunning(uuid) ==
    LET matching == {i \in 1..Len(rollouts) :
                        /\ uuid \in DOMAIN db
                        /\ ~rollouts[i].paused
                        /\ db[uuid].hardware \in firmwares[rollouts[i].firmware].compatibility}
    IN  IF matching = {} THEN 0 ELSE CHOOSE i \in matching : \A j \in matching : j <= i

\* Rollout.filter(firmware__compatibility__devices__uuid=uuid).order_by("-created_at").first()
RolloutFirst(uuid) ==
    LET matching == {i \in 1..Len(rollouts) :
                        /\ uuid \in DOMAIN db
                        /\ db[uuid].hardware \in firmwares[rollouts[i].firmware].compatibility}
    IN  IF matching = {} THEN 0 ELSE CHOOSE i \in matching : \A j \in matching : j <= i

\* get_rollout after its get_device
get_rollout(p) ==
    /\ pc[p] = "gr_device"
    /\ IF device[p].update_mode = "ROLLOUT"
       THEN /\ Goto(p, "gr_query")
            /\ UNCHANGED <<stack, rollout>>
       ELSE /\ rollout' = [rollout EXCEPT ![p] = 0]
            /\ Return(p)
    /\ UNCHANGED <<db, cache, registry, tables, call, dev_id, device, gu_device, firmware,
                   handling_type, update_fields, payload, idx, scopes, counters>>

\* get_rollout's query
get_rollout_query(p) ==
    /\ pc[p] = "gr_query"
    /\ rollout' = [rollout EXCEPT ![p] = RolloutFirst(device[p].uuid)]
    /\ Return(p)
    /\ UNCHANGED <<db, cache, registry, tables, call, dev_id, device, gu_device, firmware,
                   handling_type, update_fields, payload, idx, scopes, counters>>

\* _get_firmware after its get_device: the branch on update_mode
_get_firmware(p) ==
    /\ pc[p] = "gf_device"
    /\ CASE device[p].update_mode = "ROLLOUT" ->
                /\ pc' = [pc EXCEPT ![p] = "gd_lookup"]
                /\ stack' = [stack EXCEPT ![p] = <<"gr_device", "gf_rollout">> \o @]
                /\ UNCHANGED firmware
         [] device[p].update_mode = "ASSIGNED" ->
                /\ Goto(p, "gf_assigned")
                /\ UNCHANGED <<stack, firmware>>
         [] device[p].update_mode = "LATEST" ->
                /\ Goto(p, "gf_latest")
                /\ UNCHANGED <<stack, firmware>>
         [] device[p].update_mode = "PINNED" ->
                /\ firmware' = [firmware EXCEPT ![p] = None]
                /\ Return(p)
    /\ UNCHANGED <<db, cache, registry, tables, call, dev_id, device, gu_device, rollout,
                   handling_type, update_fields, payload, idx, scopes, counters>>

\* _get_firmware after get_rollout: none when there is no rollout or it is paused
_get_firmware_rollout(p) ==
    /\ pc[p] = "gf_rollout"
    /\ IF rollout[p] = 0 \/ rollouts[rollout[p]].paused
       THEN /\ firmware' = [firmware EXCEPT ![p] = None]
            /\ Return(p)
       ELSE /\ Goto(p, "gf_fetch")
            /\ UNCHANGED <<stack, firmware>>
    /\ UNCHANGED <<db, cache, registry, tables, call, dev_id, device, gu_device, rollout,
                   handling_type, update_fields, payload, idx, scopes, counters>>

\* the awaited fetch of the candidate: rollout.firmware, device.assigned_firmware, Firmware.latest
_get_firmware_fetch(p) ==
    /\ pc[p] \in {"gf_fetch", "gf_assigned", "gf_latest"}
    /\ firmware' = [firmware EXCEPT ![p] =
            CASE pc[p] = "gf_fetch" -> rollouts[rollout[p]].firmware
              [] pc[p] = "gf_assigned" -> device[p].assigned_firmware
              [] pc[p] = "gf_latest" -> FirmwareLatest(device[p])]
    /\ Return(p)
    /\ UNCHANGED <<db, cache, registry, tables, call, dev_id, device, gu_device, rollout,
                   handling_type, update_fields, payload, idx, scopes, counters>>

(***************************************************************************)
(* DeviceUpdateManager.get_update.                                         *)
(***************************************************************************)
\* a decision whose same-version skip does not look at force_update
get_update_version_first(dev, fw) ==
    IF fw = None THEN SKIP
    ELSE IF firmwares[fw].version = dev.fw_version THEN SKIP
    ELSE IF dev.last_state = "ERROR" /\ ~dev.force_update THEN SKIP
    ELSE FORCED

\* a decision whose error back-off does not look at force_update
get_update_error_first(dev, fw) ==
    IF fw = None THEN SKIP
    ELSE IF firmwares[fw].version = dev.fw_version /\ ~dev.force_update THEN SKIP
    ELSE IF dev.last_state = "ERROR" THEN SKIP
    ELSE FORCED

\* the decision on the record and the candidate
get_update(dev, fw) ==
    IF fw = None THEN SKIP
    ELSE IF firmwares[fw].version = dev.fw_version /\ ~dev.force_update THEN SKIP
    ELSE IF dev.last_state = "ERROR" /\ ~dev.force_update THEN SKIP
    ELSE FORCED

\* the cadence the decision sets
get_update_poll_time(handling) ==
    IF handling = FORCED THEN POLL_TIME_UPDATING ELSE POLL_TIME

\* device = await self.get_device(); then _get_firmware's own get_device
get_update_device(p) ==
    /\ pc[p] = "gu_device"
    /\ gu_device' = [gu_device EXCEPT ![p] = device[p]]
    /\ pc' = [pc EXCEPT ![p] = "gd_lookup"]
    /\ stack' = [stack EXCEPT ![p] = <<"gf_device", "gu_decide">> \o @]
    /\ UNCHANGED <<db, cache, registry, tables, call, dev_id, device, firmware, rollout,
                   handling_type, update_fields, payload, idx, scopes, counters>>

\* the decision, the cadence, and the clearing of a complete log
get_update_decide(p) ==
    /\ pc[p] = "gu_decide"
    /\ LET handling == get_update(gu_device[p], firmware[p]) IN
        /\ handling_type' = [handling_type EXCEPT ![p] = handling]
        /\ device_poll_time' = poll_time_set(dev_id[p], get_update_poll_time(handling))
        /\ IF handling = FORCED /\ gu_device[p].log_complete
           THEN CallSub(p, "gd_lookup", "gu_log_complete")
           ELSE Return(p)
    /\ UNCHANGED <<db, cache, device_log_subscriptions, tables, call, dev_id, device, gu_device,
                   firmware, rollout, update_fields, payload, idx, scopes, counters>>

\* await self.update_log_complete(False), after its get_device
get_update_log_complete(p) ==
    /\ pc[p] = "gu_log_complete"
    /\ LET u == update_log_complete(device[p], FALSE) IN
        /\ device' = [device EXCEPT ![p] = u.device]
        /\ update_fields' = [update_fields EXCEPT ![p] = u.update_fields]
        /\ cache' = save_device(cache, u.device)
    /\ CallSub(p, "sv_db", "gu_clear_log")
    /\ UNCHANGED <<db, registry, tables, call, dev_id, locals, scopes, counters>>

\* await self.clear_log(): its get_device
get_update_clear_log(p) ==
    /\ pc[p] = "gu_clear_log"
    /\ CallSub(p, "gd_lookup", "cl_device")
    /\ UNCHANGED <<db, cache, registry, tables, call, dev_id, device, locals, update_fields,
                   scopes, counters>>

(***************************************************************************)
(* Log lines are sequences of pieces of text; a buffer is the sequence of  *)
(* the pieces appended to it.                                              *)
(***************************************************************************)
INSTALLING == "Installing Update Chunk Artifacts."
SKIPPED == "Skipped Update."
DOWNLOADED == "Downloaded "
PERCENT == "%"
NEWLINE == "\n"
Digits == {"0", "42", "57", "100", "150"}

\* log_data.startswith("Installing Update Chunk Artifacts.")
StartsWithInstalling(line) == Len(line) >= 1 /\ line[1] = INSTALLING

\* re.findall(r"Downloaded (\d+)%", log_data): the places of the captured numbers
DownloadedMatches(line) ==
    {i \in 1..Len(line) :
        /\ i >= 2 /\ i < Len(line)
        /\ line[i - 1] = DOWNLOADED /\ line[i] \in Digits /\ line[i + 1] = PERCENT}

\* an extraction that keeps the first match of the line
update_log_head_first(dev, line) ==
    LET d1 == IF dev.last_log = NoText THEN [dev EXCEPT !.last_log = Text(<<>>)] ELSE dev
        m == DownloadedMatches(line)
        d2 == IF m # {}
              THEN [d1 EXCEPT !.progress = PyStr(line[CHOOSE i \in m : \A j \in m : j >= i])]
              ELSE d1
    IN  IF StartsWithInstalling(line) THEN [d2 EXCEPT !.last_log = Text(<<>>)] ELSE d2

\* update_log up to its first publish_log: lines 290-299
update_log_head(dev, line) ==
    LET d1 == IF dev.last_log = NoText THEN [dev EXCEPT !.last_log = Text(<<>>)] ELSE dev
        m == DownloadedMatches(line)
        d2 == IF m # {}
              THEN [d1 EXCEPT !.progress = PyStr(line[CHOOSE i \in m : \A j \in m : j <= i])]
              ELSE d1
    IN  IF StartsWithInstalling(line) THEN [d2 EXCEPT !.last_log = Text(<<>>)] ELSE d2

\* device.last_log += f"{log_data}\n"
update_log_append(dev, line) ==
    [dev EXCEPT !.last_log = Text(TextOf(@) \o line \o <<NEWLINE>>)]

\* a call of a callback: who called it, and with what
Delivery(caller, log_data) == [by |-> caller, data |-> log_data]

\* publish_log(log_data): `for cb in self.log_subscribers` starts on the list of the
\* device, or on a new empty list when the device has none
PublishStart(p, log_data) ==
    /\ payload' = [payload EXCEPT ![p] = log_data]
    /\ idx' = [idx EXCEPT ![p] = IF dev_id[p] \in DOMAIN device_log_subscriptions THEN 0 ELSE -1]

update_log(p) ==
    /\ pc[p] = "ul_device"
    /\ device' = [device EXCEPT ![p] = update_log_head(@, call[p].arg[1])]
    /\ update_fields' = [update_fields EXCEPT ![p] = {"progress", "last_log"}]
    /\ IF StartsWithInstalling(call[p].arg[1])
       THEN /\ PublishStart(p, NoText)
            /\ CallSub(p, "pl_next", "ul_append")
       ELSE /\ Goto(p, "ul_append")
            /\ UNCHANGED <<stack, payload, idx>>
    /\ UNCHANGED <<db, cache, registry, tables, call, dev_id, gu_device, firmware, rollout,
                   handling_type, scopes, counters>>

update_log_line(p) ==
    /\ pc[p] = "ul_append"
    /\ IF call[p].arg[1] # <<SKIPPED>>
       THEN /\ device' = [device EXCEPT ![p] = update_log_append(@, call[p].arg[1])]
            /\ PublishStart(p, Text(call[p].arg[1] \o <<NEWLINE>>))
            /\ CallSub(p, "pl_next", "sv_cache")
       ELSE /\ Goto(p, "sv_cache")
            /\ UNCHANGED <<stack, device, payload, idx>>
    /\ UNCHANGED <<db, cache, registry, tables, call, dev_id, gu_device, firmware, rollout,
                   handling_type, update_fields, scopes, counters>>

\* clear_log after its get_device: the empty buffer and save_device's cache.set
clear_log(p) ==
    /\ pc[p] = "cl_device"
    /\ device' = [device EXCEPT ![p] = [@ EXCEPT !.last_log = Text(<<>>)]]
    /\ update_fields' = [update_fields EXCEPT ![p] = {"last_log"}]
    /\ cache' = save_device(cache, device'[p])
    /\ CallSub(p, "sv_db", "cl_publish")
    /\ UNCHANGED <<db, registry, tables, call, dev_id, locals, scopes, counters>>

\* clear_log's publish_log(None)
clear_log_publish(p) ==
    /\ pc[p] = "cl_publish"
    /\ PublishStart(p, NoText)
    /\ Goto(p, "pl_next")
    /\ UNCHANGED <<db, cache, registry, tables, stack, call, dev_id, device, gu_device, firmware,
                   rollout, handling_type, update_fields, scopes, counters>>

\* whether the list iterator of publish_log has a next callback
HasNext(p) ==
    /\ idx[p] >= 0
    /\ idx[p] < Len(device_log_subscriptions[dev_id[p]])

\* await cb(log_data): the next callback of the list is called
publish_log(p) ==
    /\ pc[p] = "pl_next"
    /\ HasNext(p)
    /\ LET cb == device_log_subscriptions[dev_id[p]][idx[p] + 1] IN
        received' = [received EXCEPT ![cb] = Append(@, Delivery("publish_log", payload[p]))]
    /\ idx' = [idx EXCEPT ![p] = @ + 1]
    /\ Goto(p, "pl_wait")
    /\ UNCHANGED <<db, cache, registry, tables, stack, call, dev_id, device, gu_device, firmware,
                   rollout, handling_type, update_fields, payload, callback, outcome, counters>>

\* the callback returns
publish_log_resume(p) ==
    /\ pc[p] = "pl_wait"
    /\ Goto(p, "pl_next")
    /\ UNCHANGED <<db, cache, registry, tables, stack, call, dev_id, device, locals,
                   update_fields, scopes, counters>>

\* the list is exhausted
publish_log_end(p) ==
    /\ pc[p] = "pl_next"
    /\ ~HasNext(p)
    /\ Return(p)
    /\ UNCHANGED <<db, cache, registry, tables, call, dev_id, device, locals, update_fields,
                   scopes, counters>>

(***************************************************************************)
(* UpdateManager.subscribe_log.                                            *)
(***************************************************************************)
\* the getter of log_subscribers
log_subscribers(id) ==
    IF id \in DOMAIN device_log_subscriptions THEN device_log_subscriptions[id] ELSE <<>>

\* list.remove(x): without the first x
RemoveFirst(list, x) ==
    LET i == CHOOSE k \in 1..Len(list) : list[k] = x /\ \A j \in 1..(k - 1) : list[j] # x
    IN  SubSeq(list, 1, i - 1) \o SubSeq(list, i + 1, Len(list))

Contains(list, x) == \E k \in 1..Len(list) : list[k] = x

\* subscribers.append(callback); self.log_subscribers = subscribers
Register(id, cb) == Put(device_log_subscriptions, id, Append(log_subscribers(id), cb))

\* subscribers.remove(callback); self.log_subscribers = subscribers
Unregister(id, cb) == Put(device_log_subscriptions, id, RemoveFirst(log_subscribers(id), cb))

\* `async with manager.subscribe_log(callback)` is entered with a callback of its own
subscribe_log(p, id, max) ==
    /\ pc[p] = "idle"
    /\ nscopes < max
    /\ nscopes' = nscopes + 1
    /\ callback' = [callback EXCEPT ![p] = nscopes + 1]
    /\ received' = Put(received, nscopes + 1, <<>>)
    /\ outcome' = [outcome EXCEPT ![p] = "open"]
    /\ dev_id' = [dev_id EXCEPT ![p] = id]
    /\ call' = [call EXCEPT ![p] = Call("subscribe_log", None)]
    /\ pc' = [pc EXCEPT ![p] = "gd_lookup"]
    /\ stack' = [stack EXCEPT ![p] = <<"sub_register">>]
    /\ UNCHANGED <<db, cache, registry, tables, device, locals, update_fields, ncalls, at_call>>

\* lines 75-78: the callback is registered and called with device.last_log
subscribe_log_register(p) ==
    /\ pc[p] = "sub_register"
    /\ device_log_subscriptions' = Register(dev_id[p], callback[p])
    /\ received' = [received EXCEPT ![callback[p]] =
                        Append(@, Delivery("subscribe_log", device[p].last_log))]
    /\ Goto(p, "sub_initial")
    /\ UNCHANGED <<db, cache, device_poll_time, tables, stack, call, dev_id, device, locals,
                   update_fields, callback, outcome, counters>>

\* the first call of the callback returns: the body of the scope runs (yield)
subscribe_log_yield(p) ==
    /\ pc[p] = "sub_initial"
    /\ Goto(p, "sub_body")
    /\ UNCHANGED <<db, cache, registry, tables, stack, call, dev_id, device, locals,
                   update_fields, scopes, counters>>

\* the first call of the callback raises, or the task is cancelled in it: line 78 is
\* outside the try, the exception leaves subscribe_log
subscribe_log_initial_raises(p) ==
    /\ pc[p] = "sub_initial"
    /\ outcome' = [outcome EXCEPT ![p] = "raised_in_initial"]
    /\ Goto(p, "idle")
    /\ UNCHANGED <<db, cache, registry, tables, stack, call, dev_id, device, locals,
                   update_fields, callback, received, counters>>

\* how a scope is left from its body, and what subscribe_log does with it
Exits == {"normal", "exception", "cancelled"}
OutcomeOf(how) ==
    CASE how = "normal" -> "returned"
      [] how = "exception" -> "raised"
      [] how = "cancelled" -> "absorbed"

\* lines 79-86: the body ends, raises or is cancelled; finally removes the callback
subscribe_log_exit(p, how) ==
    /\ pc[p] = "sub_body"
    /\ IF Contains(log_subscribers(dev_id[p]), callback[p])
       THEN /\ device_log_subscriptions' = Unregister(dev_id[p], callback[p])
            /\ outcome' = [outcome EXCEPT ![p] = OutcomeOf(how)]
       ELSE /\ outcome' = [outcome EXCEPT ![p] = "ValueError"]
            /\ UNCHANGED device_log_subscriptions
    /\ Goto(p, "idle")
    /\ UNCHANGED <<db, cache, device_poll_time, tables, stack, call, dev_id, device, locals,
                   update_fields, callback, received, counters>>

\* the task is cancelled while subscribe_log awaits get_device
subscribe_log_cancelled_early(p) ==
    /\ call[p].name = "subscribe_log"
    /\ pc[p] \in {"gd_lookup", "gd_db", "gd_fill"}
    /\ outcome' = [outcome EXCEPT ![p] = "cancelled_before"]
    /\ pc' = [pc EXCEPT ![p] = "idle"]
    /\ stack' = [stack EXCEPT ![p] = <<>>]
    /\ UNCHANGED <<db, cache, registry, tables, call, dev_id, device, locals, update_fields,
                   callback, received, counters>>

(***************************************************************************)
(* delete_devices(ids).                                                    *)
(***************************************************************************)
\* Device.filter(id__in=ids).delete()
DeleteRows(table, ids) ==
    [u \in {x \in DOMAIN table : ~Contains(ids, x)} |-> table[u]]

delete_devices(p) ==
    /\ pc[p] = "del_db"
    /\ db' = DeleteRows(db, call[p].arg)
    /\ idx' = [idx EXCEPT ![p] = 0]
    /\ IF Len(call[p].arg) = 0
       THEN Return(p)
       ELSE /\ Goto(p, "del_cache")
            /\ UNCHANGED stack
    /\ UNCHANGED <<cache, registry, tables, call, dev_id, device, gu_device, firmware,
                   rollout, handling_type, update_fields, payload, scopes, counters>>

\* for dev_id in ids: await cache.delete(dev_id)
delete_devices_cache(p) ==
    /\ pc[p] = "del_cache"
    /\ cache' = Del(cache, call[p].arg[idx[p] + 1])
    /\ idx' = [idx EXCEPT ![p] = @ + 1]
    /\ IF idx[p] + 1 = Len(call[p].arg)
       THEN Return(p)
       ELSE UNCHANGED <<pc, stack>>
    /\ UNCHANGED <<db, registry, tables, call, dev_id, device, gu_device, firmware,
                   rollout, handling_type, update_fields, payload, scopes, counters>>

(***************************************************************************)
(* A state-changing call is issued through a manager for the identity id;  *)
(* the caller issues them one at a time.                                   *)
(***************************************************************************)
FirstLabel(c) ==
    CASE c.name \in UpdateNames -> "upd"
      [] c.name = "get_update" -> "gu_device"
      [] c.name = "update_log" -> "ul_device"
      [] c.name = "clear_log" -> "cl_device"

\* what the caller p can see of the device id when it issues a call, and the call it
\* made before with what that call returned
AtCall(p, id) ==
    [db |-> db, subscribers |-> log_subscribers(id), received |-> received,
     last |-> [call |-> call[p], handling_type |-> handling_type[p],
               device |-> gu_device[p], firmware |-> firmware[p]]]

Invoke(p, c, id, max) ==
    /\ pc[p] = "idle"
    /\ ncalls < max
    /\ ncalls' = ncalls + 1
    /\ at_call' = AtCall(p, id)
    /\ call' = [call EXCEPT ![p] = c]
    /\ dev_id' = [dev_id EXCEPT ![p] = id]
    /\ CASE c.name = "delete_devices" ->
                /\ Goto(p, "del_db")
                /\ stack' = [stack EXCEPT ![p] = <<>>]
         [] c.name = "update_log" /\ c.arg = NoText ->
                \* if log_data is None: return
                /\ stack' = [stack EXCEPT ![p] = <<>>]
                /\ UNCHANGED pc
         [] OTHER ->
                /\ pc' = [pc EXCEPT ![p] = "gd_lookup"]
                /\ stack' = [stack EXCEPT ![p] = <<FirstLabel(c)>>]
    /\ UNCHANGED <<db, cache, registry, tables, device, locals, update_fields, scopes, nscopes>>

(***************************************************************************)
(* UnknownUpdateManager and get_update_manager.                            *)
(***************************************************************************)
\* Firmware.latest(None): the latest firmware of all, for a device that is not known
FirmwareLatestUnset ==
    CHOOSE f \in DOMAIN firmwares :
        \A g \in DOMAIN firmwares : VersionKey(firmwares[g].version) <= VersionKey(firmwares[f].version)

\* a selector that hands the full policy to every identity
get_update_manager_full(id) == "DeviceUpdateManager"

\* the class of the manager get_update_manager returns
get_update_manager(id) ==
    IF id = "unknown" THEN "UnknownUpdateManager" ELSE "DeviceUpdateManager"

\* UnknownUpdateManager("unknown") is constructed (self.poll_time = POLL_TIME_UPDATING)
\* and called: update_log and the update_* of the base class return at once, get_update
\* awaits Firmware.latest
UnknownInvoke(p, c, max) ==
    /\ pc[p] = "idle"
    /\ ncalls < max
    /\ ncalls' = ncalls + 1
    /\ at_call' = AtCall(p, "unknown")
    /\ call' = [call EXCEPT ![p] = c]
    /\ dev_id' = [dev_id EXCEPT ![p] = "unknown"]
    /\ device_poll_time' = poll_time_set("unknown", POLL_TIME_UPDATING)
    /\ stack' = [stack EXCEPT ![p] = <<>>]
    /\ pc' = [pc EXCEPT ![p] = IF c.name = "get_update" THEN "uk_firmware" ELSE "idle"]
    /\ UNCHANGED <<db, cache, device_log_subscriptions, tables, device, locals, update_fields,
                   scopes, nscopes>>

\* UnknownUpdateManager.get_update: the firmware of _get_firmware, always FORCED
unknown_get_update(p) ==
    /\ pc[p] = "uk_firmware"
    /\ firmware' = [firmware EXCEPT ![p] = FirmwareLatestUnset]
    /\ handling_type' = [handling_type EXCEPT ![p] = FORCED]
    /\ Return(p)
    /\ UNCHANGED <<db, cache, registry, tables, call, dev_id, device, gu_device, rollout,
                   update_fields, payload, idx, scopes, counters>>

\* manager = await get_update_manager(id), then a call on the manager
Request(p, c, id, max) ==
    IF get_update_manager(id) = "UnknownUpdateManager"
    THEN UnknownInvoke(p, c, max)
    ELSE Invoke(p, c, id, max)

\* a read of the device through a manager for the identity id
ReadDevice(p, id) ==
    /\ pc[p] = "idle"
    /\ call' = [call EXCEPT ![p] = Call("get_device", None)]
    /\ dev_id' = [dev_id EXCEPT ![p] = id]
    /\ pc' = [pc EXCEPT ![p] = "gd_lookup"]
    /\ stack' = [stack EXCEPT ![p] = <<>>]
    /\ UNCHANGED <<db, cache, registry, tables, device, locals, update_fields, scopes, counters>>

(***************************************************************************)
(* Initial states: a started process (empty cache, empty registries) over  *)
(* a database left by earlier runs.                                        *)
(***************************************************************************)
hardware_b == <<"b", "1">>

FirmwareTable ==
    [f \in {"f1", "f2", "f3"} |->
        CASE f = "f1" -> [version |-> "1.0", compatibility |-> {hardware_default}]
          [] f = "f2" -> [version |-> "2.0", compatibility |-> {hardware_default, hardware_b}]
          [] f = "f3" -> [version |-> "3.0", compatibility |-> {hardware_b}]]

InitProcess ==
    /\ cache = EmptyDict
    /\ device_log_subscriptions = EmptyDict
    /\ device_poll_time = EmptyDict
    /\ firmwares = FirmwareTable
    /\ pc = [p \in Tasks |-> "idle"]
    /\ stack = [p \in Tasks |-> <<>>]
    /\ call = [p \in Tasks |-> NoCall]
    /\ dev_id = [p \in Tasks |-> "d1"]
    /\ device = [p \in Tasks |-> Unset]
    /\ gu_device = [p \in Tasks |-> Unset]
    /\ firmware = [p \in Tasks |-> None]
    /\ rollout = [p \in Tasks |-> 0]
    /\ handling_type = [p \in Tasks |-> None]
    /\ update_fields = [p \in Tasks |-> {}]
    /\ payload = [p \in Tasks |-> NoText]
    /\ idx = [p \in Tasks |-> 0]
    /\ callback = [p \in Tasks |-> 0]
    /\ outcome = [p \in Tasks |-> "none"]
    /\ received = EmptyDict
    /\ ncalls = 0
    /\ nscopes = 0
    /\ at_call = [db |-> EmptyDict, subscribers |-> <<>>, received |-> EmptyDict,
                  last |-> [call |-> NoCall, handling_type |-> None,
                            device |-> Unset, firmware |-> None]]

\* the steps of get_device and save_device, whoever runs them
AccessorStep(p) ==
    \/ get_device_cached(p)
    \/ get_device(p)
    \/ get_device_fill(p)
    \/ save_device_db(p)

(***************************************************************************)
(* The Device State Accessor: one caller of update_* and delete_devices,   *)
(* a concurrent reader, and the expiry of cache entries.                   *)
(***************************************************************************)
IPv4 == <<"10.0.0.1">>
IPv6 == <<"fe80", ":", ":", "1">>

CacheCalls ==
    {Call("update_force_update", TRUE),
     Call("update_fw_version", "1.0"),
     Call("update_hardware", hardware_b),
     Call("update_device_state", "ERROR"),
     Call("update_last_connection", <<1, IPv4>>),
     Call("update_last_connection", <<2, IPv6>>),
     Call("update_update", <<"ASSIGNED", "f1">>),
     Call("update_name", "name"),
     Call("update_config_data", [hw_model |-> "b", hw_revision |-> "1"]),
     Call("update_config_data", [hw_model |-> ""]),
     Call("update_log_complete", TRUE),
     Call("delete_devices", <<"d1">>),
     Call("delete_devices", <<"d2", "d1">>)}

InitCache ==
    /\ InitProcess
    /\ rollouts = <<>>
    /\ db \in {EmptyDict,
               [u \in {"d1"} |-> [NewDevice("d1", hardware_default) EXCEPT !.last_state = "REGISTERED"]]}

NextCache ==
    \/ \E c \in CacheCalls : Invoke(Mutator, c, "d1", MaxCacheCalls)
    \/ \E id \in DevIds : ReadDevice(Reader, id)
    \/ \E p \in {Mutator, Reader} : AccessorStep(p)
    \/ update_apply(Mutator)
    \/ delete_devices(Mutator)
    \/ delete_devices_cache(Mutator)
    \/ \E id \in DevIds : Expire(id)

SpecCache == InitCache /\ [][NextCache]_vars

(***************************************************************************)
(* The Update Decision Engine: one device polled through get_update, with  *)
(* the update_* calls that change what it decides, over a database drawn   *)
(* from the records, firmware and rollouts the decision depends on.        *)
(***************************************************************************)
hardware_c == <<"c", "1">>

Paused(fw) == [firmware |-> fw, paused |-> TRUE]
Running(fw) == [firmware |-> fw, paused |-> FALSE]

RolloutTables ==
    {<<>>,
     <<Running("f2"), Paused("f1")>>,
     <<Paused("f1"), Running("f2")>>,
     <<Running("f1"), Running("f3")>>}

PolicyDevices ==
    {[NewDevice("d1", hw) EXCEPT !.update_mode = mode, !.assigned_firmware = fw,
                                 !.fw_version = version, !.force_update = force,
                                 !.last_state = state, !.log_complete = complete,
                                 !.last_log = Text(<<"boot", NEWLINE>>)] :
        hw \in {hardware_default, hardware_b, hardware_c},
        mode \in UpdateModeEnum, fw \in {None, "f2"}, version \in {"1.0", "2.0"},
        force \in BOOLEAN, state \in {"RUNNING", "ERROR"}, complete \in BOOLEAN}

PolicyCalls ==
    {Call("get_update", None),
     Call("update_fw_version", "2.0"),
     Call("update_force_update", TRUE)}

InitPolicy ==
    /\ InitProcess
    /\ rollouts \in RolloutTables
    /\ \E d \in PolicyDevices : db = [u \in {"d1"} |-> d]

NextPolicy ==
    \/ \E c \in PolicyCalls : Invoke(Mutator, c, "d1", MaxPolicyCalls)
    \/ AccessorStep(Mutator)
    \/ update_apply(Mutator)
    \/ get_update_device(Mutator)
    \/ _get_firmware(Mutator)
    \/ get_rollout(Mutator)
    \/ get_rollout_query(Mutator)
    \/ _get_firmware_rollout(Mutator)
    \/ _get_firmware_fetch(Mutator)
    \/ get_update_decide(Mutator)
    \/ get_update_log_complete(Mutator)
    \/ get_update_clear_log(Mutator)
    \/ clear_log(Mutator)
    \/ clear_log_publish(Mutator)
    \/ publish_log_end(Mutator)

SpecPolicy == InitPolicy /\ [][NextPolicy]_vars

(***************************************************************************)
(* The Log Aggregator and the Subscription Bus: one caller of update_log   *)
(* and clear_log, and tasks that open and leave subscribe_log scopes on    *)
(* the same device.                                                        *)
(***************************************************************************)
LogCalls ==
    {Call("update_log", Text(<<"line">>)),
     Call("update_log", Text(<<INSTALLING>>)),
     Call("update_log", Text(<<SKIPPED>>)),
     Call("update_log", Text(<<DOWNLOADED, "42", PERCENT, DOWNLOADED, "57", PERCENT>>)),
     Call("update_log", NoText),
     Call("clear_log", None)}

InitLog ==
    /\ InitProcess
    /\ rollouts = <<>>
    /\ db \in {EmptyDict,
               [u \in {"d1"} |-> [NewDevice("d1", hardware_default) EXCEPT
                                    !.last_log = Text(<<"boot", NEWLINE>>)]]}

NextLog ==
    \/ \E c \in LogCalls : Invoke(Mutator, c, "d1", MaxLogCalls)
    \/ \E p \in {Mutator} \cup Subscribers : AccessorStep(p)
    \/ save_device_cache(Mutator)
    \/ update_log(Mutator)
    \/ update_log_line(Mutator)
    \/ clear_log(Mutator)
    \/ clear_log_publish(Mutator)
    \/ publish_log(Mutator)
    \/ publish_log_resume(Mutator)
    \/ publish_log_end(Mutator)
    \/ \E s \in Subscribers :
        \/ subscribe_log(s, "d1", MaxScopes)
        \/ subscribe_log_register(s)
        \/ subscribe_log_yield(s)
        \/ subscribe_log_initial_raises(s)
        \/ \E how \in Exits : subscribe_log_exit(s, how)
        \/ subscribe_log_cancelled_early(s)

SpecLog == InitLog /\ [][NextLog]_vars

(***************************************************************************)
(* The Log Aggregator without subscribers: one caller of update_log and    *)
(* clear_log on a device, and a concurrent reader of the device.           *)
(***************************************************************************)
AppendCalls ==
    {Call("update_log", Text(<<"line">>)),
     Call("update_log", Text(<<INSTALLING>>)),
     Call("update_log", Text(<<SKIPPED>>)),
     Call("update_log", Text(<<DOWNLOADED, "42", PERCENT, DOWNLOADED, "57", PERCENT>>)),
     Call("update_log", Text(<<DOWNLOADED, "150", PERCENT>>)),
     Call("update_log", NoText),
     Call("clear_log", None)}

InitAppend ==
    /\ InitProcess
    /\ rollouts = <<>>
    /\ db \in {EmptyDict,
               [u \in {"d1"} |-> [NewDevice("d1", hardware_default) EXCEPT
                                    !.last_log = Text(<<"boot", NEWLINE>>),
                                    !.progress = PyInt("100")]]}

NextAppend ==
    \/ \E c \in AppendCalls : Invoke(Mutator, c, "d1", MaxAppendCalls)
    \/ ReadDevice(Reader, "d1")
    \/ \E p \in {Mutator, Reader} : AccessorStep(p)
    \/ save_device_cache(Mutator)
    \/ update_log(Mutator)
    \/ update_log_line(Mutator)
    \/ clear_log(Mutator)
    \/ clear_log_publish(Mutator)
    \/ publish_log_end(Mutator)

SpecAppend == InitAppend /\ [][NextAppend]_vars

(***************************************************************************)
(* The Manager Selector: calls for the identity "unknown" and for a        *)
(* registered device, in any order.                                        *)
(***************************************************************************)
SelectorCalls ==
    {Call("get_update", None),
     Call("update_log", Text(<<"line">>)),
     Call("update_log", Text(<<INSTALLING>>))}

SelectorDevices ==
    {[NewDevice("d1", hardware_default) EXCEPT !.update_mode = "LATEST", !.fw_version = version,
                                               !.last_log = Text(<<"boot", NEWLINE>>)] :
        version \in {"1.0", "2.0"}}

InitSelector ==
    /\ InitProcess
    /\ rollouts = <<>>
    /\ \E d \in SelectorDevices : db = [u \in {"d1"} |-> d]

NextSelector ==
    \/ \E c \in SelectorCalls, id \in {"unknown", "d1"} : Request(Mutator, c, id, MaxSelectorCalls)
    \/ unknown_get_update(Mutator)
    \/ AccessorStep(Mutator)
    \/ get_update_device(Mutator)
    \/ _get_firmware(Mutator)
    \/ _get_firmware_fetch(Mutator)
    \/ get_update_decide(Mutator)
    \/ update_log(Mutator)
    \/ update_log_line(Mutator)
    \/ save_device_cache(Mutator)
    \/ publish_log_end(Mutator)

SpecSelector == InitSelector /\ [][NextSelector]_vars

(***************************************************************************)
(* A poll of a device whose log is watched: get_update with subscribers    *)
(* coming and going.                                                       *)
(***************************************************************************)
PollDevices ==
    {[NewDevice("d1", hardware_default) EXCEPT !.update_mode = "LATEST", !.fw_version = version,
                                               !.log_complete = complete,
                                               !.last_log = Text(<<"boot", NEWLINE>>)] :
        version \in {"1.0", "2.0"}, complete \in BOOLEAN}

InitPoll ==
    /\ InitProcess
    /\ rollouts = <<>>
    /\ \E d \in PollDevices : db = [u \in {"d1"} |-> d]

NextPoll ==
    \/ Invoke(Mutator, Call("get_update", None), "d1", MaxPollCalls)
    \/ \E p \in {Mutator} \cup Subscribers : AccessorStep(p)
    \/ get_update_device(Mutator)
    \/ _get_firmware(Mutator)
    \/ _get_firmware_fetch(Mutator)
    \/ get_update_decide(Mutator)
    \/ get_update_log_complete(Mutator)
    \/ get_update_clear_log(Mutator)
    \/ clear_log(Mutator)
    \/ clear_log_publish(Mutator)
    \/ publish_log(Mutator)
    \/ publish_log_resume(Mutator)
    \/ publish_log_end(Mutator)
    \/ \E s \in Subscribers :
        \/ subscribe_log(s, "d1", MaxScopes)
        \/ subscribe_log_register(s)
        \/ subscribe_log_yield(s)
        \/ \E how \in Exits : subscribe_log_exit(s, how)

SpecPoll == InitPoll /\ [][NextPoll]_vars

(***************************************************************************)
(* The whole manager: every operation, from any of the initial tables.     *)
(***************************************************************************)
Init == InitCache \/ InitPolicy \/ InitLog \/ InitAppend \/ InitSelector \/ InitPoll

Next == NextCache \/ NextPolicy \/ NextLog \/ NextAppend \/ NextSelector \/ NextPoll

Spec == Init /\ [][Next]_vars

(***************************************************************************)
(* Claims about the Update Decision Engine.                                *)
(***************************************************************************)
\* get_update has returned to its caller
Polled == pc[Mutator] = "idle" /\ call[Mutator].name = "get_update"

\* the candidate of a record, as section 4.4 of the specification words it
MatchingRollouts(dev) ==
    {i \in 1..Len(rollouts) : dev.hardware \in firmwares[rollouts[i].firmware].compatibility}

Newest(S) == CHOOSE i \in S : \A j \in S : i >= j

CandidateOf(dev) ==
    CASE dev.update_mode = "PINNED" -> None
      [] dev.update_mode = "ASSIGNED" -> dev.assigned_firmware
      [] dev.update_mode = "LATEST" ->
            IF \E f \in DOMAIN firmwares : dev.hardware \in firmwares[f].compatibility
            THEN CHOOSE f \in DOMAIN firmwares :
                    /\ dev.hardware \in firmwares[f].compatibility
                    /\ ~\E g \in DOMAIN firmwares :
                            /\ dev.hardware \in firmwares[g].compatibility
                            /\ VersionKey(firmwares[g].version) > VersionKey(firmwares[f].version)
            ELSE None
      [] dev.update_mode = "ROLLOUT" ->
            IF MatchingRollouts(dev) = {} THEN None
            ELSE IF rollouts[Newest(MatchingRollouts(dev))].paused THEN None
            ELSE rollouts[Newest(MatchingRollouts(dev))].firmware

\* the outcome by the priority order of section 4.3: FORCED exactly when there is a
\* candidate and either the update is forced or neither skip applies
Outcome(present, same_version, force, error) ==
    IF present /\ (force \/ (~same_version /\ ~error)) THEN FORCED ELSE SKIP

SameVersion(dev, fw) == fw # None /\ firmwares[fw].version = dev.fw_version

\* C1: the outcome of get_update is the reference function of (candidate, version
\* match, force_update, last_state), and the firmware returned is the candidate resolved
\* for the record.
C1_Decision ==
    Polled =>
        /\ handling_type[Mutator] =
                Outcome(firmware[Mutator] # None,
                        SameVersion(gu_device[Mutator], firmware[Mutator]),
                        gu_device[Mutator].force_update,
                        gu_device[Mutator].last_state = "ERROR")
        /\ firmware[Mutator] = CandidateOf(gu_device[Mutator])

\* a forced update of a device in ERROR that already runs the candidate's version
C1_Witness ==
    /\ Polled
    /\ handling_type[Mutator] = FORCED
    /\ SameVersion(gu_device[Mutator], firmware[Mutator])
    /\ gu_device[Mutator].last_state = "ERROR"
    /\ gu_device[Mutator].update_mode = "ROLLOUT"

\* C2, as claimed: whenever force_update is true, get_update returns FORCED.
C2_ForcedAlways ==
    (Polled /\ gu_device[Mutator].force_update) => handling_type[Mutator] = FORCED

\* C2, amended: whenever force_update is true and there is a candidate firmware,
\* get_update returns FORCED, whether or not the versions are equal and whether or not
\* last_state is ERROR.
C2_ForcedBypasses ==
    (Polled /\ gu_device[Mutator].force_update /\ firmware[Mutator] # None) =>
        handling_type[Mutator] = FORCED

C2_Witness ==
    /\ Polled
    /\ gu_device[Mutator].force_update
    /\ SameVersion(gu_device[Mutator], firmware[Mutator])
    /\ gu_device[Mutator].last_state = "ERROR"
    /\ handling_type[Mutator] = FORCED

\* C3: after get_update has returned, poll_time is the updating interval exactly when
\* the outcome was FORCED and the idle interval when it was SKIP; and only the decision
\* of get_update changes the cadence.
C3_Cadence ==
    /\ [](Polled =>
            /\ (poll_time("d1") = POLL_TIME_UPDATING) <=> (handling_type[Mutator] = FORCED)
            /\ handling_type[Mutator] = SKIP => poll_time("d1") = POLL_TIME)
    /\ [][device_poll_time' # device_poll_time => pc[Mutator] = "gu_decide"]_vars

\* a decision of SKIP about to reset a cadence that a FORCED poll had made faster
C3_Witness ==
    /\ pc[Mutator] = "gu_decide"
    /\ poll_time("d1") = POLL_TIME_UPDATING
    /\ get_update(gu_device[Mutator], firmware[Mutator]) = SKIP

\* C4: the candidate _get_firmware resolves is the one of the update mode: none when
\* PINNED, the assigned firmware when ASSIGNED, the highest compatible version when
\* LATEST, the firmware of the newest matching rollout when ROLLOUT, and none when no
\* rollout matches or the newest matching one is paused.
C4_Candidate ==
    pc[Mutator] = "gu_decide" => firmware[Mutator] = CandidateOf(device[Mutator])

\* the newest matching rollout is paused and an older matching one is not
C4_Witness ==
    /\ pc[Mutator] = "gu_decide"
    /\ device[Mutator].update_mode = "ROLLOUT"
    /\ Cardinality(MatchingRollouts(device[Mutator])) = 2
    /\ rollouts[2].paused /\ ~rollouts[1].paused
    /\ firmware[Mutator] = None

(***************************************************************************)
(* Claims about the Device State Accessor.                                 *)
(***************************************************************************)
\* what a get_device issued now, and run without interference, returns
GetDeviceNow(id) ==
    IF id \in DOMAIN cache THEN cache[id]
    ELSE IF id \in DOMAIN db THEN db[id]
    ELSE NewDevice(id, hardware_default)

\* the step in which the save_device of task p completes
SaveCompletes(p) == pc[p] = "sv_db" /\ pc'[p] # "sv_db"

\* C5: a get_device issued immediately after a save_device has completed returns the
\* record that was passed to save_device, never a pre-save value.
C5_ReadAfterSave ==
    [][SaveCompletes(Mutator) => GetDeviceNow(dev_id[Mutator])' = device[Mutator]]_vars

\* C6: whenever no state-changing call is in flight and the cache holds an entry for a
\* persisted device, the cached record equals the persisted record.
C6_CacheCurrent ==
    pc[Mutator] = "idle" =>
        \A id \in (DOMAIN cache) \cap (DOMAIN db) : cache[id] = db[id]

\* C7: once delete_devices(ids) has completed, the cache holds no entry of a deleted
\* record: an entry for an identity in ids belongs to a row created again since.
C7_DeletedEvicted ==
    (pc[Mutator] = "idle" /\ call[Mutator].name = "delete_devices") =>
        \A i \in 1..Len(call[Mutator].arg) :
            call[Mutator].arg[i] \in DOMAIN cache => call[Mutator].arg[i] \in DOMAIN db

(***************************************************************************)
(* Claims about the Log Subscription Registry.                             *)
(***************************************************************************)
\* the step in which task s registers its callback and makes the first delivery
Registers(s) == pc[s] = "sub_register" /\ pc'[s] = "sub_initial"

\* the scope of task s has been left after its callback was registered
ScopeLeft(s) ==
    pc[s] = "idle" /\ outcome[s] \in {"returned", "raised", "absorbed", "raised_in_initial"}

\* the scope of task s is open past registration
ScopeOpen(s) == pc[s] \in {"sub_initial", "sub_body"}

\* the characters of a log buffer: a buffer that is None shows as an empty one
Content(text) == IF IsNoText(text) THEN <<>> ELSE TextOf(text)

\* C8: when a callback is registered while no update_log or clear_log is in flight,
\* all it has received is one delivery, made by subscribe_log, of the log buffer the
\* device has at that moment.
C8_InitialIsCurrent ==
    [][\A s \in Subscribers :
          (Registers(s) /\ pc[Mutator] = "idle" /\ dev_id[s] \in DOMAIN db) =>
              /\ Len(received'[callback[s]]) = 1
              /\ received'[callback[s]][1].by = "subscribe_log"
              /\ Content(received'[callback[s]][1].data) = Content(db[dev_id[s]].last_log)]_vars

\* C9: once a scope has been left by any path after registration, its callback is not
\* in the subscriber list of the device.
C9_UnregisteredOnExit ==
    \A s \in Subscribers :
        ScopeLeft(s) => ~Contains(log_subscribers(dev_id[s]), callback[s])

\* C10: at every point the subscriber list of the device holds exactly the callbacks
\* of the scopes that are open past registration, each once.
C10_ListIsOpenScopes ==
    /\ \A cb \in 1..nscopes :
            Contains(log_subscribers("d1"), cb) <=>
                \E s \in Subscribers : callback[s] = cb /\ ScopeOpen(s)
    /\ \A i, j \in 1..Len(log_subscribers("d1")) :
            log_subscribers("d1")[i] = log_subscribers("d1")[j] => i = j

(***************************************************************************)
(* Claims about the Log Aggregator.                                        *)
(***************************************************************************)
\* the call the caller issued last has returned
Returned(name) == pc[Mutator] = "idle" /\ call[Mutator].name = name

\* the line of the update_log issued last
Line == call[Mutator].arg[1]

\* the callbacks registered when the call was issued and still registered
Stayed ==
    {cb \in DOMAIN at_call.received :
        Contains(at_call.subscribers, cb) /\ Contains(log_subscribers("d1"), cb)}

\* what a callback has been called with since the call was issued
HeardSince(cb) == SubSeq(received[cb], Len(at_call.received[cb]) + 1, Len(received[cb]))

\* C11: after update_log of a line that begins with the marker, every callback that
\* was registered throughout the call has been called with None and then with the line
\* and a newline, and with nothing else, and the persisted buffer is the line and a
\* newline.
C11_ResetBoundary ==
    (Returned("update_log") /\ ~IsNoText(call[Mutator].arg) /\ StartsWithInstalling(Line)) =>
        /\ \A cb \in Stayed :
                HeardSince(cb) = <<Delivery("publish_log", NoText),
                                  Delivery("publish_log", Text(Line \o <<NEWLINE>>))>>
        /\ db["d1"].last_log = Text(Line \o <<NEWLINE>>)

\* the part of C11 about the persisted buffer
C11_Persisted ==
    (Returned("update_log") /\ ~IsNoText(call[Mutator].arg) /\ StartsWithInstalling(Line)) =>
        db["d1"].last_log = Text(Line \o <<NEWLINE>>)

\* no callback has been called by publish_log since the call was issued
NoBroadcastSince ==
    \A cb \in DOMAIN received :
        \A i \in 1..Len(received[cb]) :
            \/ cb \in DOMAIN at_call.received /\ i <= Len(at_call.received[cb])
            \/ received[cb][i].by = "subscribe_log"

\* C12: after update_log("Skipped Update.") the persisted buffer reads as it did when
\* the call was issued and no callback has been called by publish_log; after
\* update_log(None) the row of the device is as it was and nothing was broadcast.
C12_SkippedNoEffect ==
    (Returned("update_log") /\ "d1" \in DOMAIN at_call.db) =>
        /\ IsNoText(call[Mutator].arg) =>
                db["d1"] = at_call.db["d1"] /\ NoBroadcastSince
        /\ (~IsNoText(call[Mutator].arg) /\ Line = <<SKIPPED>>) =>
                /\ Content(db["d1"].last_log) = Content(at_call.db["d1"].last_log)
                /\ NoBroadcastSince

\* the row of the device is the row it had when the call was issued, with an empty buffer
ClearedRow == db["d1"] = [at_call.db["d1"] EXCEPT !.last_log = Text(<<>>)]

\* C13: after clear_log the row of the device is the row it had with an empty buffer
\* (so a second clear_log leaves the state of the first), and every callback that was
\* registered throughout the call has been called exactly once, with None.
C13_ClearIdempotent ==
    (Returned("clear_log") /\ "d1" \in DOMAIN at_call.db) =>
        /\ ClearedRow
        /\ \A cb \in Stayed : HeardSince(cb) = <<Delivery("publish_log", NoText)>>

\* the part of C13 about the state of the device
C13_Persisted ==
    (Returned("clear_log") /\ "d1" \in DOMAIN at_call.db) => ClearedRow

(***************************************************************************)
(* Claims about the Manager Selector and the degenerate policy.            *)
(***************************************************************************)
\* the call issued last went to the manager of the identity id
CalledOn(id) == ncalls > 0 /\ dev_id[Mutator] = id

\* the text ends with the given pieces
EndsWith(text, pieces) ==
    /\ Len(text) >= Len(pieces)
    /\ SubSeq(text, Len(text) - Len(pieces) + 1, Len(text)) = pieces

\* C14: for the identity "unknown", get_update returns FORCED with the latest firmware
\* of all; once a manager for "unknown" was made its cadence is the updating interval
\* and stays so whatever is called next; no step of a call on "unknown" changes the
\* table, the cache or the subscriber lists or calls a callback. For another identity
\* the full policy runs: get_update decides by the record and update_log appends.
C14_Degenerate ==
    /\ [](/\ (Returned("get_update") /\ CalledOn("unknown")) =>
                /\ handling_type[Mutator] = FORCED
                /\ firmware[Mutator] = FirmwareLatestUnset
          /\ CalledOn("unknown") => poll_time("unknown") = POLL_TIME_UPDATING
          /\ (Returned("get_update") /\ CalledOn("d1")) =>
                /\ handling_type[Mutator] = get_update(gu_device[Mutator], firmware[Mutator])
                /\ poll_time("d1") = get_update_poll_time(handling_type[Mutator])
          /\ (Returned("update_log") /\ CalledOn("d1")) =>
                EndsWith(TextOf(db["d1"].last_log), Line \o <<NEWLINE>>))
    /\ [][/\ (poll_time("unknown") = POLL_TIME_UPDATING) =>
                (poll_time("unknown")' = POLL_TIME_UPDATING)
          /\ (dev_id'[Mutator] = "unknown") =>
                UNCHANGED <<db, cache, device_log_subscriptions, received>>]_vars

\* a poll of "unknown" after a poll of a registered device was answered SKIP
C14_Witness ==
    /\ Returned("get_update") /\ CalledOn("unknown")
    /\ handling_type[Mutator] = FORCED
    /\ "d1" \in DOMAIN cache /\ gu_device[Mutator].uuid = "d1"
    /\ poll_time("d1") = POLL_TIME
    /\ poll_time("unknown") = POLL_TIME_UPDATING

(***************************************************************************)
(* Claims about progress.                                                  *)
(***************************************************************************)
\* the number of the last "Downloaded <N>%" at or before place i of the line, "" if none
RECURSIVE LastCapture(_, _)
LastCapture(line, i) ==
    IF i < 2 THEN ""
    ELSE IF i < Len(line) /\ line[i - 1] = DOWNLOADED /\ line[i] \in Digits /\ line[i + 1] = PERCENT
         THEN line[i]
         ELSE LastCapture(line, i - 1)

LastDownloaded(line) == LastCapture(line, Len(line) - 1)

\* the step of update_log that scans the line
Scans(p) == pc[p] = "ul_device" /\ pc'[p] # "ul_device"

\* C15: after update_log of a line, the persisted progress is the number of the last
\* "Downloaded <N>%" of the line, and what it was when the call was issued when the
\* line has none.
C15_ProgressByLine ==
    (Returned("update_log") /\ ~IsNoText(call[Mutator].arg) /\ "d1" \in DOMAIN at_call.db) =>
        db["d1"].progress =
            IF LastDownloaded(Line) # "" THEN PyInt(LastDownloaded(Line))
            ELSE at_call.db["d1"].progress

\* the part of C15 about the scan: the progress of the record update_log holds becomes
\* the number of the last match, and is not assigned when the line has none; after the
\* call the persisted progress is the number of the last match.
C15_LastMatchWins ==
    /\ []((Returned("update_log") /\ ~IsNoText(call[Mutator].arg) /\ LastDownloaded(Line) # "") =>
            db["d1"].progress = PyInt(LastDownloaded(Line)))
    /\ [][Scans(Mutator) =>
            device'[Mutator].progress =
                IF LastDownloaded(Line) # "" THEN PyStr(LastDownloaded(Line))
                ELSE device[Mutator].progress]_vars

\* a line with two different numbers has been logged over an earlier progress
C15_Witness ==
    /\ Returned("update_log") /\ ~IsNoText(call[Mutator].arg)
    /\ Cardinality(DownloadedMatches(Line)) = 2
    /\ "d1" \in DOMAIN at_call.db /\ at_call.db["d1"].progress = PyInt("150")
    /\ db["d1"].progress = PyInt("57")

(***************************************************************************)
(* Claims about the log and the poll.                                      *)
(***************************************************************************)
\* C16: when get_update has returned FORCED for a record whose log was complete, the
\* persisted buffer is empty, log_complete is false and every callback registered
\* throughout the call has been called exactly once, with None; otherwise the persisted
\* buffer and log_complete are what they were and nothing was broadcast.
C16_ClearedWhenComplete ==
    (Returned("get_update") /\ "d1" \in DOMAIN at_call.db) =>
        IF handling_type[Mutator] = FORCED /\ gu_device[Mutator].log_complete
        THEN /\ db["d1"].last_log = Text(<<>>)
             /\ ~db["d1"].log_complete
             /\ \A cb \in Stayed : HeardSince(cb) = <<Delivery("publish_log", NoText)>>
        ELSE /\ db["d1"].last_log = at_call.db["d1"].last_log
             /\ db["d1"].log_complete = at_call.db["d1"].log_complete
             /\ NoBroadcastSince

\* C16 without the count of the broadcasts a staying callback gets
C16_Persisted ==
    (Returned("get_update") /\ "d1" \in DOMAIN at_call.db) =>
        IF handling_type[Mutator] = FORCED /\ gu_device[Mutator].log_complete
        THEN /\ db["d1"].last_log = Text(<<>>)
             /\ ~db["d1"].log_complete
        ELSE /\ db["d1"].last_log = at_call.db["d1"].last_log
             /\ db["d1"].log_complete = at_call.db["d1"].log_complete
             /\ NoBroadcastSince

\* the call before the one issued last was a get_update that returned FORCED for a
\* record with force_update set whose candidate had the version the device runs
ForcedByFlagBefore ==
    /\ at_call.last.call.name = "get_update"
    /\ at_call.last.handling_type = FORCED
    /\ at_call.last.device.force_update
    /\ SameVersion(at_call.last.device, at_call.last.firmware)

\* C17: a get_update that follows, with no call in between, a get_update that returned
\* FORCED on account of force_update (the candidate's version being the device's) does
\* not return FORCED.
C17_OneShot ==
    (Returned("get_update") /\ ForcedByFlagBefore) => handling_type[Mutator] # FORCED

\* the number a string of digits stands for
NumberOf(digits) ==
    CASE digits = "0" -> 0 [] digits = "42" -> 42 [] digits = "57" -> 57
      [] digits = "100" -> 100 [] digits = "150" -> 150

\* C18: the persisted progress of every device is null or an integer from 0 to 100.
C18_ProgressPercent ==
    \A id \in DOMAIN db :
        \/ db[id].progress = PyNone
        \/ db[id].progress.py = "int" /\ NumberOf(db[id].progress.v) \in 0..100

(***************************************************************************)
(* Claims about the broadcast and the view of a subscriber.                *)
(***************************************************************************)
\* the call issued last has returned and has run publish_log once
BroadcastOnce ==
    \/ Returned("clear_log")
    \/ /\ Returned("update_log") /\ ~IsNoText(call[Mutator].arg)
       /\ ~StartsWithInstalling(Line) /\ Line # <<SKIPPED>>

\* C19: when a call that runs publish_log once has returned, every callback that was in
\* the subscriber list from before the call until after it has been called exactly once
\* since, with the payload of the broadcast.
C19_BroadcastReachesAll ==
    BroadcastOnce =>
        \A cb \in Stayed : HeardSince(cb) = <<Delivery("publish_log", payload[Mutator])>>

\* the view a subscriber builds from its deliveries: a null payload empties it, a text
\* payload is appended to it
RECURSIVE Replay(_)
Replay(deliveries) ==
    IF deliveries = <<>> THEN <<>>
    ELSE LET last == deliveries[Len(deliveries)]
             before == SubSeq(deliveries, 1, Len(deliveries) - 1)
         IN IF IsNoText(last.data) THEN <<>> ELSE Replay(before) \o TextOf(last.data)

\* no update_log or clear_log is in flight for the device
Quiescent == pc[Mutator] = "idle"

\* C20: whenever no update_log or clear_log is in flight, the replayed view of every
\* subscriber with an open scope equals the persisted last_log of the device.
C20_ViewIsLog ==
    \A s \in Subscribers :
        (Quiescent /\ ScopeOpen(s) /\ "d1" \in DOMAIN db) =>
            Replay(received[callback[s]]) = Content(db["d1"].last_log)

====
